---------------------------- MODULE Spec2Model ----------------------------
(***************************************************************************)
(* The date-shifting logic of src/app.py ("Apply Shifting Logic", lines    *)
(* 197-253): the conference push-past pass, the vacation redistribution    *)
(* pass and the "Study Date" collision-avoidance pass, run in that order   *)
(* over the melted task table.                                             *)
(*                                                                         *)
(* A calendar date is a day number (datetime.date is totally ordered and   *)
(* timedelta(days=1) is +1).  A row of the table is an index 1..NRows; the *)
(* column "Task Type" is ttype, the column "Date" of `melted` is melted    *)
(* and the column "Date" of `df_shifted` is Date.  Every one-day step of a *)
(* forward scan (an iteration of a while loop) is one step of the model.   *)
(***************************************************************************)
EXTENDS Integers, Sequences, FiniteSets

\* ------------------------------------------------------------------ bounds
\* Size of an input of the general family: rows of the task table plus
\* conference ranges plus vacation ranges.
MaxSize == 5
\* Latest day number an input date or a range endpoint may take.
MaxDay == 3
\* Longest list of conference (vacation) ranges enumerated.
MaxRanges == 2
\* Longest task table of the load family.
MaxLoad == 8
\* Longest task table of the family the termination is checked on.
MaxLive == 2

\* --------------------------------------------------------- program constants
\* max 6 tasks/day in the redistribution (the literal in the while condition).
Capacity == 6

StudyDate == "Study Date"
Review1 == "1-Day Review"
\* value_vars of pd.melt, in column order (two of the eight columns).
value_vars == <<StudyDate, Review1>>
TaskTypes == {value_vars[i] : i \in 1..Len(value_vars)}

Days == 1..MaxDay
\* No scan is allowed past this day: the guard that caps the day counters.
Horizon == MaxDay + 2 * MaxLoad + 4
AllDays == 1..Horizon

VARIABLES
    ttype,                   \* column "Task Type" (never written)
    melted,                  \* column "Date" of the input table
    Date,                    \* column "Date" of df_shifted
    conf_ranges,             \* list of (start, end)
    vac_ranges,              \* list of (start, end)
    shift_conference_types,
    shift_vacation_types,
    pc,                      \* position in the script
    idx,                     \* row of the running for loop
    d,                       \* the date read from a row; scan variable of pass 1
    vr,                      \* position in vac_ranges_sorted
    vac_indices,             \* rows still to place, in placement order
    slot_counts,             \* running occupancy per day
    candidate,               \* scan variable of passes 2 and 3
    study_order,             \* rows of study_rows still to visit, in sorted order
    study_rows,              \* the copy of the dates taken by pass 3
    occupied,                \* dates claimed by pass 3
    rerun,                   \* TRUE in a second run over the first run's output
    moved,                   \* history: <<vr, row, from, to>> of each placement
    at_snapshot              \* history: the dates when slot_counts was built

vars == <<ttype, melted, Date, conf_ranges, vac_ranges, shift_conference_types,
          shift_vacation_types, pc, idx, d, vr, vac_indices, slot_counts,
          candidate, study_order, study_rows, occupied, rerun, moved,
          at_snapshot>>

NRows == Len(ttype)
Rows == 1..NRows

\* ----------------------------------------------------------------- helpers
\* Faults of in_any_conf_range: only the first range is tested; the end of a
\* range is not tested.
in_any_conf_range_first(date_obj, conf_list) ==
    conf_list[1][1] <= date_obj /\ date_obj <= conf_list[1][2]

in_any_conf_range_open(date_obj, conf_list) ==
    \E k \in 1..Len(conf_list) : conf_list[k][1] <= date_obj

in_any_conf_range(date_obj, conf_list) ==
    \E k \in 1..Len(conf_list) :
        conf_list[k][1] <= date_obj /\ date_obj <= conf_list[k][2]

\* Python's sorted() over <<key, item>> pairs: ascending in the key and
\* stable, so a pair comes after the pairs of smaller key and after the pairs
\* of equal key that stood before it.
Rank(s, i) ==
    1 + Cardinality({j \in 1..Len(s) :
                        s[j][1] < s[i][1] \/ (s[j][1] = s[i][1] /\ j < i)})

SortPairs(s) == [k \in 1..Len(s) |-> s[CHOOSE i \in 1..Len(s) : Rank(s, i) = k]]

Items(pairs) == [k \in 1..Len(pairs) |-> pairs[k][2]]

\* sorted(vac_ranges, key=lambda x: x[0])
SortedRanges(ranges) ==
    Items(SortPairs([k \in 1..Len(ranges) |-> <<ranges[k][1], ranges[k]>>]))

vac_ranges_sorted == SortedRanges(vac_ranges)

\* Number of rows dated on the given day.
CountOn(dates, day) == Cardinality({i \in 1..Len(dates) : dates[i] = day})

\* ------------------------------------------------------------------- inputs
\* A range is the (start, end) pair of a date_input range picker: start <= end.
Ranges == {r \in Days \X Days : r[1] <= r[2]}

TypePos(t) == CHOOSE i \in 1..Len(value_vars) : value_vars[i] = t

\* pd.melt stacks the value columns in value_vars order: the rows of one task
\* type are contiguous, "Study Date" rows first.  dropna removes blank cells.
Melted(t) == \A i, j \in 1..Len(t) : i < j => TypePos(t[i][1]) <= TypePos(t[j][1])
Tables(n) == {t \in [1..n -> TaskTypes \X Days] : Melted(t)}

\* The options of both multiselects are melted["Task Type"].unique().
Present(table) == {table[i][1] : i \in 1..Len(table)}

\* The general family: every table, list of ranges and selection of a size.
Sizes ==
    {sz \in (0..MaxSize) \X (1..MaxRanges) \X (1..MaxRanges) :
        sz[1] + sz[2] + sz[3] <= MaxSize}

\* The load family: more rows of one review type than one day may receive,
\* given by the number of rows per day, in ascending or descending date order,
\* with one range of each kind and the review type selected for redistribution.
RECURSIVE Repeat(_, _)
Repeat(x, k) == IF k = 0 THEN <<>> ELSE <<x>> \o Repeat(x, k - 1)

RECURSIVE Total(_, _)
Total(f, n) == IF n = 0 THEN 0 ELSE f[n] + Total(f, n - 1)

RECURSIVE Ascending(_, _)
Ascending(f, n) ==
    IF n = 0 THEN <<>> ELSE Ascending(f, n - 1) \o Repeat(<<Review1, n>>, f[n])

Reverse(s) == [k \in 1..Len(s) |-> s[Len(s) + 1 - k]]

Profiles ==
    {f \in [Days -> 0..MaxLoad] :
        Total(f, MaxDay) > Capacity /\ Total(f, MaxDay) <= MaxLoad}
LoadTables ==
    {Ascending(f, MaxDay) : f \in Profiles}
        \cup {Reverse(Ascending(f, MaxDay)) : f \in Profiles}

Start(table, confs, vacs, sct, svt) ==
    /\ ttype = [i \in 1..Len(table) |-> table[i][1]]
    /\ melted = [i \in 1..Len(table) |-> table[i][2]]
    /\ Date = melted
    /\ conf_ranges = confs
    /\ vac_ranges = vacs
    /\ shift_conference_types = sct
    /\ shift_vacation_types = svt
    /\ pc = "conf_row"
    /\ idx = 1
    /\ d = 1
    /\ vr = 1
    /\ vac_indices = <<>>
    /\ slot_counts = [x \in AllDays |-> 0]
    /\ candidate = 1
    /\ study_order = <<>>
    /\ study_rows = <<>>
    /\ occupied = {}
    /\ rerun = FALSE
    /\ moved = <<>>
    /\ at_snapshot = <<>>

InitGeneral ==
    \E sz \in Sizes :
        \E table \in Tables(sz[1]), confs \in [1..sz[2] -> Ranges],
           vacs \in [1..sz[3] -> Ranges] :
            \E sct \in SUBSET Present(table), svt \in SUBSET Present(table) :
                Start(table, confs, vacs, sct, svt)

InitLoad ==
    \E table \in LoadTables, conf \in Ranges, vac \in Ranges :
        \E sct \in SUBSET Present(table) :
            Start(table, <<conf>>, <<vac>>, sct, Present(table))

Init == InitGeneral \/ InitLoad

\* The family the termination is checked on: the tables of up to MaxLive rows
\* with one range of each kind, and the load tables dated on a single day with
\* every type selected.
InitLive ==
    \/ \E n \in 0..MaxLive :
        \E table \in Tables(n), conf \in Ranges, vac \in Ranges :
            \E sct \in SUBSET Present(table), svt \in SUBSET Present(table) :
                Start(table, <<conf>>, <<vac>>, sct, svt)
    \/ \E n \in (Capacity + 1)..MaxLoad, day \in Days, conf \in Ranges, vac \in Ranges :
        Start(Repeat(<<Review1, day>>, n), <<conf>>, <<vac>>, {Review1}, {Review1})

\* --------------------------------------------- 1) conference push-past pass
\* One iteration of `for idx, row in df_shifted.iterrows()` up to the scan.
ConfRow ==
    /\ pc = "conf_row"
    /\ idx <= NRows
    /\ IF ttype[idx] \in shift_conference_types
          /\ in_any_conf_range(Date[idx], conf_ranges)
       THEN /\ d' = Date[idx]
            /\ pc' = "conf_scan"
            /\ idx' = idx
       ELSE /\ idx' = idx + 1
            /\ UNCHANGED <<d, pc>>
    /\ UNCHANGED <<ttype, melted, Date, conf_ranges, vac_ranges,
                   shift_conference_types, shift_vacation_types, vr, vac_indices,
                   slot_counts, candidate, study_order, study_rows, occupied,
                   rerun, moved, at_snapshot>>

\* One test of `while in_any_conf_range(d, conf_ranges)`: a one-day step, or
\* the exit of the loop and the write of the new date.
ConfScan ==
    /\ pc = "conf_scan"
    /\ IF in_any_conf_range(d, conf_ranges)
       THEN /\ d < Horizon
            /\ d' = d + 1
            /\ UNCHANGED <<Date, idx, pc>>
       ELSE /\ Date' = [Date EXCEPT ![idx] = d]
            /\ idx' = idx + 1
            /\ pc' = "conf_row"
            /\ d' = d
    /\ UNCHANGED <<ttype, melted, conf_ranges, vac_ranges,
                   shift_conference_types, shift_vacation_types, vr, vac_indices,
                   slot_counts, candidate, study_order, study_rows, occupied,
                   rerun, moved, at_snapshot>>

\* The for loop is exhausted; vac_ranges_sorted is taken.
ConfEnd ==
    /\ pc = "conf_row"
    /\ idx > NRows
    /\ pc' = "vac_range"
    /\ vr' = 1
    /\ moved' = <<>>
    /\ UNCHANGED <<ttype, melted, Date, conf_ranges, vac_ranges,
                   shift_conference_types, shift_vacation_types, idx, d,
                   vac_indices, slot_counts, candidate, study_order, study_rows,
                   occupied, rerun, at_snapshot>>

\* ------------------------------------------- 2) vacation redistribution pass
\* Fault of InVacRange: the task type is not tested.
InVacRange_anytype(i, r) == r[1] <= Date[i] /\ Date[i] <= r[2]

\* `(ttype in shift_vacation_types) and (vr_start <= d <= vr_end)` for row i.
InVacRange(i, r) ==
    /\ ttype[i] \in shift_vacation_types
    /\ r[1] <= Date[i]
    /\ Date[i] <= r[2]

\* The rows of a set in row order (the order of iterrows()).
InRowOrder(S) ==
    [k \in 1..Cardinality(S) |->
        CHOOSE i \in S : Cardinality({j \in S : j < i}) = k - 1]

\* The rows of a set as sorted(rows, key=date) leaves them: ascending in the
\* date, and in row order on equal dates, the sort being stable.
SortedByDate(S) ==
    [k \in 1..Cardinality(S) |->
        CHOOSE i \in S :
            Cardinality({j \in S : Date[j] < Date[i]
                                   \/ (Date[j] = Date[i] /\ j < i)}) = k - 1]

\* Fault of VacIndices: the collected rows are not sorted.
VacIndices_unsorted(r) == InRowOrder({i \in Rows : InVacRange(i, r)})

\* The rows collected for range r, then sorted by their current date.
VacIndices(r) == SortedByDate({i \in Rows : InVacRange(i, r)})

\* Fault of Snapshot: the rows already dated after the range are not counted.
Snapshot_empty(dates, vr_end) == [x \in AllDays |-> 0]

\* slot_counts as built for a range ending on vr_end: every row, of any task
\* type, dated after vr_end counts on its date.
Snapshot(dates, vr_end) ==
    [x \in AllDays |-> IF x > vr_end THEN CountOn(dates, x) ELSE 0]

\* Fault of SlotTaken: a day is full only above 6.
SlotTaken_above(counts, c, confs) ==
    counts[c] > Capacity \/ in_any_conf_range(c, confs)

\* The condition of `while slot_counts[candidate] >= 6 or in_any_conf_range(..)`.
SlotTaken(counts, c, confs) ==
    counts[c] >= Capacity \/ in_any_conf_range(c, confs)

\* Fault of FirstCandidate: the scan starts on the first day of the range.
FirstCandidate_start(r) == r[1]

\* `candidate = vr_end + timedelta(days=1)`
FirstCandidate(r) == r[2] + 1

\* The head of `for vr in vac_ranges_sorted`: the collection of vac_indices,
\* the occupancy snapshot and the sort of the rows to place.
VacRange ==
    /\ pc = "vac_range"
    /\ vr <= Len(vac_ranges_sorted)
    /\ vac_indices' = VacIndices(vac_ranges_sorted[vr])
    /\ slot_counts' = Snapshot(Date, vac_ranges_sorted[vr][2])
    /\ at_snapshot' = Date
    /\ d' = IF NRows > 0 THEN Date[NRows] ELSE d
    /\ pc' = "vac_next"
    /\ UNCHANGED <<ttype, melted, Date, conf_ranges, vac_ranges,
                   shift_conference_types, shift_vacation_types, idx, vr,
                   candidate, study_order, study_rows, occupied, rerun, moved>>

\* The head of the placement loop: the next row starts at vr_end + 1, or the
\* rows are exhausted and the next range is due.
VacNext ==
    /\ pc = "vac_next"
    /\ IF vac_indices # <<>>
       THEN /\ candidate' = FirstCandidate(vac_ranges_sorted[vr])
            /\ pc' = "vac_scan"
            /\ vr' = vr
       ELSE /\ vr' = vr + 1
            /\ pc' = "vac_range"
            /\ candidate' = candidate
    /\ UNCHANGED <<ttype, melted, Date, conf_ranges, vac_ranges,
                   shift_conference_types, shift_vacation_types, idx, d,
                   vac_indices, slot_counts, study_order, study_rows, occupied,
                   rerun, moved, at_snapshot>>

\* One test of the while condition: a one-day step, or the placement.
VacScan ==
    /\ pc = "vac_scan"
    /\ IF SlotTaken(slot_counts, candidate, conf_ranges)
       THEN /\ candidate < Horizon
            /\ candidate' = candidate + 1
            /\ UNCHANGED <<Date, slot_counts, vac_indices, moved, pc>>
       ELSE /\ Date' = [Date EXCEPT ![Head(vac_indices)] = candidate]
            /\ slot_counts' = [slot_counts EXCEPT ![candidate] = @ + 1]
            /\ moved' = Append(moved, <<vr, Head(vac_indices),
                                        Date[Head(vac_indices)], candidate>>)
            /\ vac_indices' = Tail(vac_indices)
            /\ pc' = "vac_next"
            /\ candidate' = candidate
    /\ UNCHANGED <<ttype, melted, conf_ranges, vac_ranges,
                   shift_conference_types, shift_vacation_types, idx, d, vr,
                   study_order, study_rows, occupied, rerun, at_snapshot>>

\* Every vacation range is processed.
VacEnd ==
    /\ pc = "vac_range"
    /\ vr > Len(vac_ranges_sorted)
    /\ pc' = "study_sort"
    /\ UNCHANGED <<ttype, melted, Date, conf_ranges, vac_ranges,
                   shift_conference_types, shift_vacation_types, idx, d, vr,
                   vac_indices, slot_counts, candidate, study_order, study_rows,
                   occupied, rerun, moved, at_snapshot>>

\* ------------------------------------ 3) "Study Date" collision-avoidance pass
StudyRows == InRowOrder({i \in Rows : ttype[i] = StudyDate})

\* study_rows.sort_values("Date"): pandas' default kind is quicksort, which
\* does not fix the order of rows with equal dates; every order of the rows
\* that is ascending in the date is an outcome.
SortValues(rows, dates) ==
    {s \in [1..Len(rows) -> {rows[k] : k \in 1..Len(rows)}] :
        /\ \A a, b \in 1..Len(rows) : a # b => s[a] # s[b]
        /\ \A a, b \in 1..Len(rows) : a < b => dates[s[a]] <= dates[s[b]]}

\* Fault of Free: the claimed dates are not tested.
Free_unclaimed(day, occ, confs) == ~in_any_conf_range(day, confs)

\* `d not in occupied and not in_any_conf_range(d, conf_ranges)`
Free(day, occ, confs) == day \notin occ /\ ~in_any_conf_range(day, confs)

\* `if "Study Date" in shift_conference_types`: the copy and the sort.
StudySort ==
    /\ pc = "study_sort"
    /\ IF StudyDate \in shift_conference_types
       THEN /\ study_rows' = Date
            /\ study_order' \in SortValues(StudyRows, Date)
            /\ occupied' = {}
            /\ pc' = "study_row"
       ELSE /\ pc' = "done"
            /\ UNCHANGED <<study_rows, study_order, occupied>>
    /\ UNCHANGED <<ttype, melted, Date, conf_ranges, vac_ranges,
                   shift_conference_types, shift_vacation_types, idx, d, vr,
                   vac_indices, slot_counts, candidate, rerun, moved, at_snapshot>>

\* One iteration of the loop over the sorted rows, up to the scan.
StudyRow ==
    /\ pc = "study_row"
    /\ study_order # <<>>
    /\ d' = study_rows[Head(study_order)]
    /\ IF Free(d', occupied, conf_ranges)
       THEN /\ occupied' = occupied \cup {d'}
            /\ study_order' = Tail(study_order)
            /\ UNCHANGED <<candidate, pc>>
       ELSE /\ candidate' = d' + 1
            /\ pc' = "study_scan"
            /\ UNCHANGED <<occupied, study_order>>
    /\ UNCHANGED <<ttype, melted, Date, conf_ranges, vac_ranges,
                   shift_conference_types, shift_vacation_types, idx, vr,
                   vac_indices, slot_counts, study_rows, rerun, moved, at_snapshot>>

\* One test of `while (candidate in occupied) or in_any_conf_range(..)`.
StudyScan ==
    /\ pc = "study_scan"
    /\ IF ~Free(candidate, occupied, conf_ranges)
       THEN /\ candidate < Horizon
            /\ candidate' = candidate + 1
            /\ UNCHANGED <<Date, occupied, study_order, pc>>
       ELSE /\ Date' = [Date EXCEPT ![Head(study_order)] = candidate]
            /\ occupied' = occupied \cup {candidate}
            /\ study_order' = Tail(study_order)
            /\ pc' = "study_row"
            /\ candidate' = candidate
    /\ UNCHANGED <<ttype, melted, conf_ranges, vac_ranges,
                   shift_conference_types, shift_vacation_types, idx, d, vr,
                   vac_indices, slot_counts, study_rows, rerun, moved, at_snapshot>>

\* The sorted rows are exhausted: the shifting logic is over.
StudyEnd ==
    /\ pc = "study_row"
    /\ study_order = <<>>
    /\ pc' = "done"
    /\ UNCHANGED <<ttype, melted, Date, conf_ranges, vac_ranges,
                   shift_conference_types, shift_vacation_types, idx, d, vr,
                   vac_indices, slot_counts, candidate, study_order, study_rows,
                   occupied, rerun, moved, at_snapshot>>

\* The three passes are run once more, over the output of the first run and
\* with the same ranges and type selections.
Rerun ==
    /\ pc = "done"
    /\ ~rerun
    /\ rerun' = TRUE
    /\ melted' = Date
    /\ pc' = "conf_row"
    /\ idx' = 1
    /\ UNCHANGED <<ttype, Date, conf_ranges, vac_ranges,
                   shift_conference_types, shift_vacation_types, d, vr,
                   vac_indices, slot_counts, candidate, study_order, study_rows,
                   occupied, moved, at_snapshot>>

Next ==
    \/ ConfRow
    \/ ConfScan
    \/ ConfEnd
    \/ VacRange
    \/ VacNext
    \/ VacScan
    \/ VacEnd
    \/ StudySort
    \/ StudyRow
    \/ StudyScan
    \/ StudyEnd
    \/ Rerun

Spec == Init /\ [][Next]_vars

\* The passes under the scheduling of a script: a step that can be taken is taken.
LiveSpec == InitLive /\ [][Next]_vars /\ WF_vars(Next)

\* ------------------------------------------------------------ the properties
\* A day lies inside one of the closed ranges of a list.
Inside(day, ranges) ==
    \E k \in DOMAIN ranges : ranges[k][1] <= day /\ day <= ranges[k][2]

\* The smallest day later than `day` that lies in no conference range.
NextOutside(day) ==
    CHOOSE x \in AllDays :
        /\ x > day
        /\ ~Inside(x, conf_ranges)
        /\ \A y \in AllDays : (y > day /\ y < x) => Inside(y, conf_ranges)

Selected(i) ==
    ttype[i] \in shift_conference_types \/ ttype[i] \in shift_vacation_types

\* C1 (displacement containment): after the three passes no task of a type in
\* shift_conference_types is dated inside a conference range and no task of a
\* type in shift_vacation_types is dated inside a vacation range.
C1_Containment ==
    pc = "done" =>
        \A i \in Rows :
            /\ ttype[i] \in shift_conference_types => ~Inside(Date[i], conf_ranges)
            /\ ttype[i] \in shift_vacation_types => ~Inside(Date[i], vac_ranges)

\* C2, as claimed (capacity respect): once every vacation range is processed no
\* day holds more than 6 tasks of the types in shift_vacation_types.
C2_CapacityEveryDay ==
    pc = "study_sort" =>
        \A x \in AllDays :
            Cardinality({i \in Rows : Date[i] = x
                                      /\ ttype[i] \in shift_vacation_types}) <= Capacity

\* The days the vacation pass placed a task on.
Received == {moved[k][4] : k \in DOMAIN moved}

\* C2, amended: once every vacation range is processed, no day the pass placed
\* a task on holds more than 6 tasks, of whatever type.
C2_CapacityWherePlaced ==
    pc = "study_sort" =>
        \A x \in Received : Cardinality({i \in Rows : Date[i] = x}) <= Capacity

\* C2's case: the pass filled a day to 6 and placed the next task on a later day.
C2_Witness ==
    /\ pc = "study_sort"
    /\ \E x \in Received :
        /\ Cardinality({i \in Rows : Date[i] = x}) = Capacity
        /\ \E y \in Received : y > x

\* C3 (idempotence): a second run over the output of the first run, with the
\* same ranges and selections, changes no date.
C3_Idempotent == (rerun /\ pc = "done") => Date = melted

\* C4 (push-past result): right after the conference pass every task of a type
\* in shift_conference_types whose original date lay inside a conference range
\* is dated on the smallest later day outside every conference range; with one
\* range [a, b] that day is b + 1.
C4_PushPast ==
    (pc = "vac_range" /\ vr = 1) =>
        \A i \in Rows :
            (ttype[i] \in shift_conference_types /\ Inside(melted[i], conf_ranges)) =>
                /\ Date[i] = NextOutside(melted[i])
                /\ Len(conf_ranges) = 1 => Date[i] = conf_ranges[1][2] + 1

\* C4's case: a task was pushed past two ranges as one block.
C4_Witness ==
    /\ pc = "vac_range" /\ vr = 1
    /\ Len(conf_ranges) = 2
    /\ \E i \in Rows :
        /\ ttype[i] \in shift_conference_types
        /\ Inside(melted[i], <<conf_ranges[1]>>)
        /\ ~Inside(melted[i], <<conf_ranges[2]>>)
        /\ Date[i] > conf_ranges[2][2]
        /\ Date[i] > conf_ranges[1][2] + 1

\* The running occupancy of a day while a range is processed: the tasks dated
\* there when the snapshot was taken plus those placed there since.
Occupancy(x) ==
    Cardinality({i \in DOMAIN at_snapshot : at_snapshot[i] = x})
        + Cardinality({k \in DOMAIN moved : moved[k][1] = vr /\ moved[k][4] = x})

\* The placements of the range being processed.
PlacedNow == {k \in DOMAIN moved : moved[k][1] = vr}

\* A placement of the vacation pass: the step that leaves the scan.
Placement == pc = "vac_scan" /\ pc' = "vac_next"

\* C5 (earliest-fit redistribution): a task is placed on the earliest day after
\* the range end whose running occupancy is below 6 and which is in no
\* conference range; with no task dated after the range at the snapshot and no
\* conference range after the range end, the k-th task placed lands on
\* rangeEnd + 1 + (k - 1) div 6.
C5_EarliestFit ==
    [][Placement =>
        LET end == vac_ranges_sorted[vr][2]
            to == Date'[Head(vac_indices)]
            k == Cardinality(PlacedNow) + 1
        IN  /\ to > end
            /\ Occupancy(to) < Capacity
            /\ ~Inside(to, conf_ranges)
            /\ \A y \in AllDays :
                (y > end /\ y < to) =>
                    (Occupancy(y) >= Capacity \/ Inside(y, conf_ranges))
            /\ ((\A i \in DOMAIN at_snapshot : at_snapshot[i] <= end)
                /\ (\A y \in AllDays : y > end => ~Inside(y, conf_ranges)))
               => to = end + 1 + ((k - 1) \div Capacity)
      ]_vars

\* C5's case: 7 tasks of one range, nothing in the way: 6 on the day after the
\* range end and 1 on the next.
C5_Witness ==
    /\ pc = "vac_next"
    /\ vac_indices = <<>>
    /\ Cardinality(PlacedNow) = Capacity + 1
    /\ \A i \in DOMAIN at_snapshot : at_snapshot[i] <= vac_ranges_sorted[vr][2]
    /\ \A y \in AllDays : y > vac_ranges_sorted[vr][2] => ~Inside(y, conf_ranges)
    /\ Cardinality({k \in PlacedNow : moved[k][4] = vac_ranges_sorted[vr][2] + 1})
         = Capacity
    /\ Cardinality({k \in PlacedNow : moved[k][4] = vac_ranges_sorted[vr][2] + 2})
         = 1

\* C6 (collision avoidance): with "Study Date" in shift_conference_types, after
\* the collision-avoidance pass no two "Study Date" tasks share a date.
C6_NoCollision ==
    (pc = "done" /\ StudyDate \in shift_conference_types) =>
        \A i, j \in Rows :
            (i # j /\ ttype[i] = StudyDate /\ ttype[j] = StudyDate) =>
                Date[i] # Date[j]

\* C6's case: two "Study Date" tasks started on one date and were separated.
C6_Witness ==
    /\ pc = "done"
    /\ ~rerun
    /\ StudyDate \in shift_conference_types
    /\ \E i, j \in Rows :
        /\ i # j /\ ttype[i] = StudyDate /\ ttype[j] = StudyDate
        /\ melted[i] = melted[j]
        /\ Date[i] # Date[j]

\* C7 (termination): every forward scan stops; the passes reach their end, in
\* the first run and in the second, and stay there.
C7_Terminates == <>[](pc = "done" /\ rerun)

\* C7's case: the end is reached after a scan of several one-day steps.
C7_Witness ==
    /\ pc = "done"
    /\ \E i \in Rows : Date[i] >= melted[i] + 3

\* C8 (forward-only displacement): no step of any pass moves a task to an
\* earlier date.
C8_ForwardOnly == [][\A i \in Rows : Date'[i] >= Date[i]]_vars

\* C8's case: a task has been moved by each of the three passes.
C8_Witness ==
    /\ pc = "done"
    /\ ~rerun
    /\ moved # <<>>
    /\ StudyDate \in shift_conference_types
    /\ \E i \in Rows : study_rows[i] # Date[i]
    /\ \E i \in Rows : ttype[i] \notin shift_vacation_types /\ ttype[i] # StudyDate
                       /\ melted[i] < Date[i]

\* C9 (order preservation): the rows of a vacation range are placed in
\* ascending order of their date in the range, row order on equal dates, and
\* the placement is monotone: of two tasks of one range, the one placed first
\* is not placed later, and the one dated earlier is not placed later either.
C9_OrderPreserved ==
    /\ pc \in {"vac_next", "vac_scan"} =>
        \A a, b \in DOMAIN vac_indices :
            a < b =>
                \/ Date[vac_indices[a]] < Date[vac_indices[b]]
                \/ /\ Date[vac_indices[a]] = Date[vac_indices[b]]
                   /\ vac_indices[a] < vac_indices[b]
    /\ \A a, b \in DOMAIN moved :
        (moved[a][1] = moved[b][1]) =>
            /\ a < b => moved[a][4] <= moved[b][4]
            /\ a < b => \/ moved[a][3] < moved[b][3]
                        \/ moved[a][3] = moved[b][3] /\ moved[a][2] < moved[b][2]
            /\ moved[a][3] < moved[b][3] => moved[a][4] <= moved[b][4]

\* C9's case: rows listed in descending date order overflowed one day.
C9_Witness ==
    /\ pc = "vac_next"
    /\ \E a, b \in DOMAIN moved :
        /\ moved[a][1] = moved[b][1]
        /\ moved[a][3] < moved[b][3]
        /\ moved[a][2] > moved[b][2]
        /\ moved[a][4] < moved[b][4]

\* C10 (frame for unselected types): a task whose type is in neither selection
\* keeps its input date through all three passes.
C10_Frame == \A i \in Rows : ~Selected(i) => Date[i] = melted[i]

\* C10's case: an unselected task sits inside a conference range, and one
\* sits inside a vacation range on a date another task was moved onto.
C10_Witness ==
    /\ pc = "done"
    /\ \E i, j, k \in Rows :
        /\ ~Selected(i)
        /\ Inside(Date[i], conf_ranges)
        /\ ~Selected(k)
        /\ Inside(Date[k], vac_ranges)
        /\ melted[j] # Date[j]
        /\ Date[j] = Date[k]

=============================================================================
